---- MODULE Spec2Model ----
(***************************************************************************)
(* duologsync/config.py: the Config class (a write-once, process-wide      *)
(* configuration store), the cerberus schema it validates a configuration  *)
(* against, and the default-filling step.                                   *)
(*                                                                         *)
(* Python values are tagged records, so that None, False, 0, '' and {} are  *)
(* five different values, as they are for the `is None` tests of the code.  *)
(***************************************************************************)
EXTENDS Integers, Sequences, FiniteSets, TLC

VARIABLES
    _config,          \* Config._config
    _config_is_set,   \* Config._config_is_set
    call,             \* the last classmethod call on Config and its outcome
    first_arg,        \* the argument of the first set_config call
    ncalls,           \* number of classmethod calls made so far
    pc,               \* position of the start-up pipeline
    file,             \* the file at config_filepath
    config,           \* the config dictionary the pipeline works on
    stdout,           \* lines printed so far
    raised,           \* the exception that reached the caller, if any
    steps,            \* the pipeline steps that ran, in order
    utcnow,           \* datetime.utcnow() read by set_config_defaults (epoch seconds)
    tzoffset,         \* UTC offset of the host's local time zone (seconds east)
    before,           \* the config as it was handed to set_config_defaults
    prev_out,         \* what the last set_config_defaults call printed
    applied           \* number of set_config_defaults calls made

vars == <<_config, _config_is_set, call, first_arg, ncalls, pc, file, config,
          stdout, raised, steps, utcnow, tzoffset, before, prev_out, applied>>

store_vars == <<_config, _config_is_set, call, first_arg, ncalls>>
load_vars == <<pc, file, config, stdout, raised, steps, utcnow, tzoffset,
               before, prev_out, applied>>

----------------------------------------------------------------------------
(* Python values *)

PyNone == [t |-> "none"]
PyStr(s) == [t |-> "str", s |-> s]
PyInt(n) == [t |-> "int", n |-> n]
PyBool(b) == [t |-> "bool", b |-> b]
PyList(l) == [t |-> "list", l |-> l]
PyDict(d) == [t |-> "dict", d |-> d]

EmptyDict == [k \in {} |-> PyNone]

\* dict.get(key): the value, or None when the key is absent
Get(d, key) == IF key \in DOMAIN d THEN d[key] ELSE PyNone

\* d[key] = value
Put(d, key, value) == [k \in DOMAIN d \cup {key} |-> IF k = key THEN value ELSE d[k]]

\* bool(value) is False
Falsy(v) ==
    \/ v.t = "none"
    \/ v.t = "bool" /\ ~v.b
    \/ v.t = "int" /\ v.n = 0
    \/ v.t = "str" /\ v.s = ""
    \/ v.t = "list" /\ v.l = <<>>
    \/ v.t = "dict" /\ DOMAIN v.d = {}

NoException == [exc |-> "none"]

----------------------------------------------------------------------------
(* The store: Config._config, Config._config_is_set and their accessors *)

MaxCalls == 3

check_config_is_set_never_raises(is_set) == NoException

check_config_is_set(is_set) ==
    IF is_set
    THEN NoException
    ELSE [exc |-> "RuntimeError",
          msg |-> "Cannot access values of config before setting it"]

set_config_overwrites(cls, arg) ==
    [raised |-> NoException,
     cls |-> [_config |-> arg, _config_is_set |-> TRUE]]

set_config(cls, arg) ==
    IF cls._config_is_set
    THEN [raised |-> [exc |-> "RuntimeError",
                      msg |-> "Config object already set. Cannot set Config object more than once"],
          cls |-> cls]
    ELSE [raised |-> NoException,
          cls |-> [_config |-> arg, _config_is_set |-> TRUE]]

KeyIsInvalid_truthiness(curr_value) == Falsy(curr_value)

\* `if curr_value is None` of the loop in get_value
KeyIsInvalid(curr_value) == curr_value = PyNone

RECURSIVE get_value_loop(_, _, _)
get_value_loop(curr_value, keys, i) ==
    IF i > Len(keys)
    THEN [raised |-> NoException, value |-> curr_value]
    ELSE IF curr_value.t # "dict"
    THEN [raised |-> [exc |-> "AttributeError", msg |-> "object has no attribute 'get'"],
          value |-> PyNone]
    ELSE LET next == Get(curr_value.d, keys[i])
         IN IF KeyIsInvalid(next)
            THEN [raised |-> [exc |-> "ValueError", key |-> keys[i],
                              msg |-> "is an invalid key for this Config"],
                  value |-> PyNone]
            ELSE get_value_loop(next, keys, i + 1)

get_value(cls, keys) ==
    LET chk == check_config_is_set(cls._config_is_set)
    IN IF chk # NoException
       THEN [raised |-> chk, value |-> PyNone]
       ELSE get_value_loop(cls._config, keys, 1)

get_enabled_endpoints(cls) == get_value(cls, <<"logs", "endpoints", "enabled">>)
get_polling_duration(cls) == get_value(cls, <<"logs", "polling", "duration">>)
get_checkpoint_directory(cls) == get_value(cls, <<"logs", "checkpointDir">>)
get_ikey(cls) == get_value(cls, <<"duoclient", "ikey">>)
get_skey(cls) == get_value(cls, <<"duoclient", "skey">>)
get_host(cls) == get_value(cls, <<"duoclient", "host">>)
get_recover_log_offset(cls) == get_value(cls, <<"recoverFromCheckpoint", "enabled">>)
get_log_directory(cls) == get_value(cls, <<"logs", "logDir">>)

Accessors ==
    {"get_enabled_endpoints", "get_polling_duration", "get_checkpoint_directory",
     "get_ikey", "get_skey", "get_host", "get_recover_log_offset", "get_log_directory"}

CallAccessor(name, cls) ==
    CASE name = "get_enabled_endpoints" -> get_enabled_endpoints(cls)
      [] name = "get_polling_duration" -> get_polling_duration(cls)
      [] name = "get_checkpoint_directory" -> get_checkpoint_directory(cls)
      [] name = "get_ikey" -> get_ikey(cls)
      [] name = "get_skey" -> get_skey(cls)
      [] name = "get_host" -> get_host(cls)
      [] name = "get_recover_log_offset" -> get_recover_log_offset(cls)
      [] name = "get_log_directory" -> get_log_directory(cls)

Cls == [_config |-> _config, _config_is_set |-> _config_is_set]

\* Arguments the callers of set_config are modelled to pass: set_config takes
\* any object.
DefaultedConfig(enabled, daysinpast) ==
    PyDict([duoclient |-> PyDict([ikey |-> PyStr("DI"), skey |-> PyStr("sk"),
                                  host |-> PyStr("api.example")]),
            logs |-> PyDict([logDir |-> PyStr("/tmp"),
                             endpoints |-> PyDict([enabled |-> PyStr("auth")]),
                             polling |-> PyDict([duration |-> PyInt(120),
                                                 daysinpast |-> PyInt(daysinpast)]),
                             checkpointDir |-> PyStr("/tmp"),
                             offset |-> PyInt(1000)]),
            transport |-> PyDict([protocol |-> PyStr("UDP"), host |-> PyStr("siem"),
                                  port |-> PyInt(514)]),
            recoverFromCheckpoint |-> PyDict([enabled |-> PyBool(enabled)])])

SetConfigArgs ==
    {DefaultedConfig(FALSE, 0),
     DefaultedConfig(TRUE, 180),
     PyDict([logs |-> PyDict([logDir |-> PyStr(""), checkpointDir |-> PyNone]),
             recoverFromCheckpoint |-> PyDict(EmptyDict)]),
     PyNone}

GetValuePaths ==
    {<<>>, <<"logs">>, <<"transport", "port">>,
     <<"logs", "polling", "daysinpast">>,
     <<"logs", "logDir">>, <<"logs", "logDir", "x">>,
     <<"logs", "checkpointDir">>,
     <<"recoverFromCheckpoint", "enabled">>,
     <<"recoverFromCheckpoint", "enabled", "x">>,
     <<"nokey", "logs">>}

NoCall == [op |-> "none"]

StoreInit ==
    /\ _config = PyNone
    /\ _config_is_set = FALSE
    /\ call = NoCall
    /\ first_arg = [given |-> FALSE]
    /\ ncalls = 0

SetConfig(arg) ==
    LET r == set_config(Cls, arg)
    IN /\ ncalls < MaxCalls
       /\ _config' = r.cls._config
       /\ _config_is_set' = r.cls._config_is_set
       /\ call' = [op |-> "set_config", arg |-> arg, raised |-> r.raised,
                   first |-> ~first_arg.given, old |-> _config,
                   old_is_set |-> _config_is_set]
       /\ first_arg' = IF first_arg.given THEN first_arg
                       ELSE [given |-> TRUE, arg |-> arg]
       /\ ncalls' = ncalls + 1
       /\ UNCHANGED load_vars

GetValue(keys) ==
    LET r == get_value(Cls, keys)
    IN /\ ncalls < MaxCalls
       /\ call' = [op |-> "get_value", keys |-> keys, raised |-> r.raised,
                   value |-> r.value]
       /\ ncalls' = ncalls + 1
       /\ UNCHANGED <<_config, _config_is_set, first_arg>>
       /\ UNCHANGED load_vars

Accessor(name) ==
    LET r == CallAccessor(name, Cls)
    IN /\ ncalls < MaxCalls
       /\ call' = [op |-> name, raised |-> r.raised, value |-> r.value]
       /\ ncalls' = ncalls + 1
       /\ UNCHANGED <<_config, _config_is_set, first_arg>>
       /\ UNCHANGED load_vars

LoadIdle ==
    /\ pc = "idle"
    /\ file = [kind |-> "none"]
    /\ config = PyNone
    /\ stdout = <<>>
    /\ raised = NoException
    /\ steps = <<>>
    /\ utcnow = 0
    /\ tzoffset = 0
    /\ before = PyNone
    /\ prev_out = <<>>
    /\ applied = 0

Init == StoreInit /\ LoadIdle

Next ==
    \/ \E arg \in SetConfigArgs : SetConfig(arg)
    \/ \E keys \in GetValuePaths : GetValue(keys)
    \/ \E name \in Accessors : Accessor(name)

Spec == Init /\ [][Next]_vars

----------------------------------------------------------------------------
(* The schema, and cerberus' Validator(SCHEMA).validate(config) *)

DEFAULT_DIRECTORY == PyStr("/tmp")
DEFAULT_DAYS_IN_PAST == 180
MINIMUM_POLLING_DURATION == 120
VALID_ENDPOINTS == {PyStr("adminaction"), PyStr("auth"), PyStr("telephony")}

RequiredString == [type |-> {"string"}, required |-> TRUE, empty |-> FALSE]
OptionalString == [type |-> {"string"}, empty |-> FALSE]

DUOCLIENT ==
    [type |-> {"dict"},
     required |-> TRUE,
     schema |-> [skey |-> RequiredString,
                 ikey |-> RequiredString,
                 host |-> RequiredString]]

LOGS_any_endpoint ==
    [type |-> {"dict"},
     required |-> TRUE,
     schema |-> [logDir |-> OptionalString,
                 endpoints |-> [type |-> {"dict"},
                                required |-> TRUE,
                                schema |-> [enabled |-> [type |-> {"string", "list"},
                                                         required |-> TRUE,
                                                         empty |-> FALSE]]],
                 polling |-> [type |-> {"dict"},
                              schema |-> [duration |-> [type |-> {"number"}],
                                          daysinpast |-> [type |-> {"integer"},
                                                          min |-> 0]]],
                 checkpointDir |-> OptionalString]]

LOGS ==
    [type |-> {"dict"},
     required |-> TRUE,
     schema |-> [logDir |-> OptionalString,
                 endpoints |-> [type |-> {"dict"},
                                required |-> TRUE,
                                schema |-> [enabled |-> [type |-> {"string", "list"},
                                                         required |-> TRUE,
                                                         empty |-> FALSE,
                                                         allowed |-> VALID_ENDPOINTS]]],
                 polling |-> [type |-> {"dict"},
                              schema |-> [duration |-> [type |-> {"number"}],
                                          daysinpast |-> [type |-> {"integer"},
                                                          min |-> 0]]],
                 checkpointDir |-> OptionalString]]

TRANSPORT_no_dependencies ==
    [type |-> {"dict"},
     required |-> TRUE,
     schema |-> [protocol |-> [type |-> {"string"},
                               required |-> TRUE,
                               oneof |-> <<[allowed |-> {PyStr("TCPSSL")}],
                                           [allowed |-> {PyStr("TCP"), PyStr("UDP")}]>>],
                 host |-> RequiredString,
                 port |-> [type |-> {"integer"}, min |-> 0, max |-> 65535,
                           required |-> TRUE],
                 certFileDir |-> OptionalString,
                 certFileName |-> OptionalString]]

TRANSPORT ==
    [type |-> {"dict"},
     required |-> TRUE,
     schema |-> [protocol |-> [type |-> {"string"},
                               required |-> TRUE,
                               oneof |-> <<[allowed |-> {PyStr("TCPSSL")},
                                            dependencies |-> <<"certFileDir", "certFileName">>],
                                           [allowed |-> {PyStr("TCP"), PyStr("UDP")}]>>],
                 host |-> RequiredString,
                 port |-> [type |-> {"integer"}, min |-> 0, max |-> 65535,
                           required |-> TRUE],
                 certFileDir |-> OptionalString,
                 certFileName |-> OptionalString]]

RECOVER_FROM_CHECKPOINT ==
    [type |-> {"dict"},
     schema |-> [enabled |-> [type |-> {"boolean"}]]]

SCHEMA ==
    [duoclient |-> DUOCLIENT,
     logs |-> LOGS,
     transport |-> TRANSPORT,
     recoverFromCheckpoint |-> RECOVER_FROM_CHECKPOINT]

\* cerberus' type names; bool is no 'integer' and no 'number' (floats are not
\* among the values modelled)
TypeMatches(v, ty) ==
    CASE ty = "string" -> v.t = "str"
      [] ty = "integer" -> v.t = "int"
      [] ty = "number" -> v.t = "int"
      [] ty = "boolean" -> v.t = "bool"
      [] ty = "list" -> v.t = "list"
      [] ty = "dict" -> v.t = "dict"

\* a Sized value of length 0
IsEmpty(v) ==
    \/ v.t = "str" /\ v.s = ""
    \/ v.t = "list" /\ v.l = <<>>
    \/ v.t = "dict" /\ DOMAIN v.d = {}

\* the 'allowed' rule: every item of an iterable that is no string, else the value
Unallowed(v, allowed) ==
    IF v.t = "list"
    THEN \E i \in 1..Len(v.l) : v.l[i] \notin allowed
    ELSE v \notin allowed

\* An error is <<path of the field, message, what the message names>>.
RECURSIVE ValidateDocument(_, _, _)
RECURSIVE ValidateField(_, _, _, _)

\* The rules of one field, in cerberus' order: nullable, type and empty first
\* (a failure of one of these drops the remaining rules), then the rest.
ValidateField(doc, field, rules, path) ==
    LET value == doc[field]
        here == Append(path, field)
        Has(rule) == rule \in DOMAIN rules
        allowedErrors ==
            IF Has("allowed") /\ Unallowed(value, rules.allowed)
            THEN {<<here, "unallowed value", "">>} ELSE {}
        dependencyErrors ==
            IF Has("dependencies")
            THEN {<<here, "field is required", rules.dependencies[i]>> :
                    i \in {j \in 1..Len(rules.dependencies) :
                             rules.dependencies[j] \notin DOMAIN doc}}
            ELSE {}
        minErrors ==
            IF Has("min") /\ value.n < rules.min
            THEN {<<here, "min value", "">>} ELSE {}
        maxErrors ==
            IF Has("max") /\ value.n > rules.max
            THEN {<<here, "max value", "">>} ELSE {}
        \* each definition of a oneof is checked as the field's rules, with the
        \* field's type carried over
        Definition(i) ==
            IF Has("type") /\ "type" \notin DOMAIN rules.oneof[i]
            THEN [k \in DOMAIN rules.oneof[i] \cup {"type"} |->
                    IF k = "type" THEN rules.type ELSE rules.oneof[i][k]]
            ELSE rules.oneof[i]
        oneofErrors ==
            IF Has("oneof")
            THEN LET errs == [i \in 1..Len(rules.oneof) |->
                                ValidateField(doc, field, Definition(i), path)]
                     valid == {i \in 1..Len(rules.oneof) : errs[i] = {}}
                 IN IF Cardinality(valid) = 1
                    THEN {}
                    ELSE {<<here, "none or more than one rule validate", "">>}
                         \cup UNION {errs[i] : i \in 1..Len(rules.oneof)}
            ELSE {}
        schemaErrors ==
            IF Has("schema") /\ value.t = "dict"
            THEN ValidateDocument(value.d, rules.schema, here)
            ELSE {}
    IN IF value = PyNone
       THEN {<<here, "null value not allowed", "">>}
       ELSE IF Has("type") /\ ~\E ty \in rules.type : TypeMatches(value, ty)
       THEN {<<here, "must be of type", "">>}
       ELSE IF Has("empty") /\ IsEmpty(value)
       THEN IF rules.empty THEN {} ELSE {<<here, "empty values not allowed", "">>}
       ELSE allowedErrors \cup dependencyErrors \cup minErrors \cup maxErrors
            \cup oneofErrors \cup schemaErrors

\* All the errors of a mapping: unknown fields, missing required fields and
\* the errors of every field that is given.
ValidateDocument(doc, schema, path) ==
    LET unknown == {<<Append(path, f), "unknown field", "">> :
                       f \in DOMAIN doc \ DOMAIN schema}
        missing == {<<Append(path, f), "required field", "">> :
                       f \in {g \in DOMAIN schema :
                                /\ "required" \in DOMAIN schema[g]
                                /\ schema[g].required
                                /\ Get(doc, g) = PyNone}}
    IN unknown \cup missing
       \cup UNION {ValidateField(doc, f, schema[f], path) :
                     f \in DOMAIN doc \cap DOMAIN schema}

\* validate_config(config): the exception raised, with the errors collected
validate_config(cfg) ==
    IF cfg.t # "dict"
    THEN [exc |-> "DocumentError", errors |-> {}]
    ELSE LET errors == ValidateDocument(cfg.d, SCHEMA, <<>>)
         IN IF errors # {}
            THEN [exc |-> "RuntimeError", errors |-> errors]
            ELSE NoException

----------------------------------------------------------------------------
(* create_config and set_config_defaults *)

OpenErrorLine ==
    [fmt |-> "An error occurred while opening the config file. Check that the filename and filepath are correct",
     args |-> <<>>]

YamlErrorLine ==
    [fmt |-> "An error occurred while reading the config file. Check that the file has valid YAML.",
     args |-> <<>>]

create_config_swallows(config_file) ==
    CASE config_file.kind = "missing" ->
            [raised |-> NoException, value |-> PyNone, out |-> <<OpenErrorLine>>]
      [] config_file.kind = "malformed" ->
            [raised |-> NoException, value |-> PyNone, out |-> <<YamlErrorLine>>]
      [] config_file.kind = "yaml" ->
            [raised |-> NoException, value |-> config_file.doc, out |-> <<>>]

\* create_config(config_filepath): open and read the file, yaml.full_load it;
\* both handlers print and re-raise
create_config(config_file) ==
    CASE config_file.kind = "missing" ->
            [raised |-> [exc |-> "OSError"], value |-> PyNone, out |-> <<OpenErrorLine>>]
      [] config_file.kind = "malformed" ->
            [raised |-> [exc |-> "YAMLError"], value |-> PyNone, out |-> <<YamlErrorLine>>]
      [] config_file.kind = "yaml" ->
            [raised |-> NoException, value |-> config_file.doc, out |-> <<>>]

\* default_msg % (field, value)
default_msg(field, value) ==
    [fmt |-> "Config: No value given for %s, using default value of %s",
     args |-> <<PyStr(field), value>>]

too_low_msg ==
    [fmt |-> "Config: Value given for logs.polling.duration was too low. Set to default value of %s",
     args |-> <<PyInt(MINIMUM_POLLING_DURATION)>>]

\* value.get(key) on a dict value
PyGet(value, key) == Get(value.d, key)

\* config[a][b] = value and config[a][b][c] = value
Put2(cfg, a, b, value) == PyDict(Put(cfg.d, a, PyDict(Put(cfg.d[a].d, b, value))))
Put3(cfg, a, b, c, value) == Put2(cfg, a, b, PyDict(Put(cfg.d[a].d[b].d, c, value)))

\* lines 296-300: the two optional mappings are created when missing
EnsureMappings(cfg) ==
    LET c1 == IF PyGet(PyGet(cfg, "logs"), "polling") = PyNone
              THEN Put2(cfg, "logs", "polling", PyDict(EmptyDict))
              ELSE cfg
    IN IF PyGet(c1, "recoverFromCheckpoint") = PyNone
       THEN PyDict(Put(c1.d, "recoverFromCheckpoint", PyDict(EmptyDict)))
       ELSE c1

\* Each block below takes and gives [config, out]: the dictionary, updated in
\* place, and the lines printed so far.

DefaultLogDir(st) ==
    IF PyGet(PyGet(st.config, "logs"), "logDir") = PyNone
    THEN [config |-> Put2(st.config, "logs", "logDir", DEFAULT_DIRECTORY),
          out |-> Append(st.out, default_msg("logs.logDir", DEFAULT_DIRECTORY))]
    ELSE st

DefaultPollingDuration_no_clamp(st) ==
    LET polling_duration == PyGet(PyGet(PyGet(st.config, "logs"), "polling"), "duration")
    IN IF polling_duration = PyNone
       THEN [config |-> Put3(st.config, "logs", "polling", "duration",
                             PyInt(MINIMUM_POLLING_DURATION)),
             out |-> Append(st.out, default_msg("logs.polling.duration",
                                                PyInt(MINIMUM_POLLING_DURATION)))]
       ELSE st

DefaultPollingDuration_always_minimum(st) ==
    LET polling_duration == PyGet(PyGet(PyGet(st.config, "logs"), "polling"), "duration")
    IN IF polling_duration = PyNone
       THEN [config |-> Put3(st.config, "logs", "polling", "duration",
                             PyInt(MINIMUM_POLLING_DURATION)),
             out |-> Append(st.out, default_msg("logs.polling.duration",
                                                PyInt(MINIMUM_POLLING_DURATION)))]
       ELSE [config |-> Put3(st.config, "logs", "polling", "duration",
                             PyInt(MINIMUM_POLLING_DURATION)),
             out |-> st.out]

DefaultPollingDuration(st) ==
    LET polling_duration == PyGet(PyGet(PyGet(st.config, "logs"), "polling"), "duration")
    IN IF polling_duration = PyNone
       THEN [config |-> Put3(st.config, "logs", "polling", "duration",
                             PyInt(MINIMUM_POLLING_DURATION)),
             out |-> Append(st.out, default_msg("logs.polling.duration",
                                                PyInt(MINIMUM_POLLING_DURATION)))]
       ELSE IF polling_duration.n < MINIMUM_POLLING_DURATION
       THEN [config |-> Put3(st.config, "logs", "polling", "duration",
                             PyInt(MINIMUM_POLLING_DURATION)),
             out |-> Append(st.out, too_low_msg)]
       ELSE st

DefaultDaysInPast(st) ==
    IF PyGet(PyGet(PyGet(st.config, "logs"), "polling"), "daysinpast") = PyNone
    THEN [config |-> Put3(st.config, "logs", "polling", "daysinpast",
                          PyInt(DEFAULT_DAYS_IN_PAST)),
          out |-> Append(st.out, default_msg("logs.polling.daysinpast",
                                             PyInt(DEFAULT_DAYS_IN_PAST)))]
    ELSE st

DefaultCheckpointDir_silent(st) ==
    IF PyGet(PyGet(st.config, "logs"), "checkpointDir") = PyNone
    THEN [config |-> Put2(st.config, "logs", "checkpointDir", DEFAULT_DIRECTORY),
          out |-> st.out]
    ELSE st

DefaultCheckpointDir(st) ==
    IF PyGet(PyGet(st.config, "logs"), "checkpointDir") = PyNone
    THEN [config |-> Put2(st.config, "logs", "checkpointDir", DEFAULT_DIRECTORY),
          out |-> Append(st.out, default_msg("logs.checkpointDir", DEFAULT_DIRECTORY))]
    ELSE st

DefaultRecoverEnabled(st) ==
    IF PyGet(PyGet(st.config, "recoverFromCheckpoint"), "enabled") = PyNone
    THEN [config |-> Put2(st.config, "recoverFromCheckpoint", "enabled", PyBool(FALSE)),
          out |-> Append(st.out, default_msg("recoverFromCheckpoint.enabled",
                                             PyBool(FALSE)))]
    ELSE st

SecondsPerDay == 86400
\* days from datetime.min (0001-01-01) to the epoch, and timedelta.max.days
DaysBeforeEpoch == 719162
MaxTimedeltaDays == 999999999

\* datetime.utcnow() - timedelta(days=days_in_past) overflows?
DateOutOfRange(now, days_in_past) ==
    \/ days_in_past > MaxTimedeltaDays
    \/ (now \div SecondsPerDay) - days_in_past < 0 - DaysBeforeEpoch

\* int(default_log_offset.timestamp()): utcnow() is a naive datetime holding
\* UTC wall-clock time, and timestamp() reads a naive datetime as local time.
LogOffset(now, utc_offset, days_in_past) ==
    (now - SecondsPerDay * days_in_past) - utc_offset

\* set_config_defaults(config) with the clock and the time zone it reads:
\* the dictionary as it is left, what was printed, and the exception raised
set_config_defaults(cfg, now, utc_offset) ==
    LET st == DefaultRecoverEnabled(DefaultCheckpointDir(DefaultDaysInPast(
                  DefaultPollingDuration(DefaultLogDir(
                      [config |-> EnsureMappings(cfg), out |-> <<>>])))))
        days_in_past == st.config.d["logs"].d["polling"].d["daysinpast"].n
    IN IF DateOutOfRange(now, days_in_past)
       THEN [config |-> st.config, out |-> st.out,
             raised |-> [exc |-> "OverflowError"]]
       ELSE [config |-> Put2(st.config, "logs", "offset",
                             PyInt(LogOffset(now, utc_offset, days_in_past))),
             out |-> st.out,
             raised |-> NoException]

----------------------------------------------------------------------------
(* The files and the environment the program is run with *)

Absent == [t |-> "absent"]

\* the entry key: value of a mapping, or nothing when the field is left out
Field(key, value) == IF value = Absent THEN EmptyDict ELSE (key :> value)

DuoclientInputs ==
    {Absent,
     PyDict([ikey |-> PyStr("DI"), skey |-> PyStr("sk"), host |-> PyStr("api.example")])}
ProtocolInputs == {PyStr("TCP"), PyStr("UDP"), PyStr("TCPSSL")}
CertFileDirInputs == {Absent, PyStr("/certs")}
CertFileNameInputs == {Absent, PyStr("cert.pem")}
EnabledInputs ==
    {PyStr("auth"), PyStr("syslog"),
     PyList(<<PyStr("auth"), PyStr("telephony")>>),
     PyList(<<PyStr("adminaction"), PyStr("syslog")>>),
     PyList(<<>>)}
DirInputs == {Absent, PyStr("/var/dls")}
DurationInputs == {Absent, PyInt(119), PyInt(120), PyInt(300)}
DaysInPastInputs == {Absent, PyInt(30), PyInt(1000000)}
PollingInputs ==
    {Absent} \cup {PyDict(Field("duration", du) @@ Field("daysinpast", da)) :
                     du \in DurationInputs, da \in DaysInPastInputs}
RecoverInputs ==
    {Absent, PyDict(EmptyDict), PyDict([enabled |-> PyBool(TRUE)]),
     PyDict([enabled |-> PyBool(FALSE)])}
OffsetInputs == {Absent, PyInt(1500000000)}

Document(duo, pr, cfd, cfn, en, ld, po, cd, rc, off) ==
    PyDict(Field("duoclient", duo)
           @@ ("logs" :> PyDict(Field("logDir", ld)
                                @@ ("endpoints" :> PyDict("enabled" :> en))
                                @@ Field("polling", po)
                                @@ Field("checkpointDir", cd)
                                @@ Field("offset", off)))
           @@ ("transport" :> PyDict(("protocol" :> pr)
                                     @@ ("host" :> PyStr("siem.example"))
                                     @@ ("port" :> PyInt(514))
                                     @@ Field("certFileDir", cfd)
                                     @@ Field("certFileName", cfn)))
           @@ Field("recoverFromCheckpoint", rc))

\* the file holds one of the documents above
IsDocumentFile(f) ==
    \E duo \in DuoclientInputs, pr \in ProtocolInputs, cfd \in CertFileDirInputs,
       cfn \in CertFileNameInputs, en \in EnabledInputs, ld \in DirInputs,
       po \in PollingInputs, cd \in DirInputs, rc \in RecoverInputs,
       off \in OffsetInputs :
        f = [kind |-> "yaml",
             doc |-> Document(duo, pr, cfd, cfn, en, ld, po, cd, rc, off)]

\* datetime.utcnow() in whole seconds since the epoch, and the UTC offsets of
\* the hosts the program is run on
ClockReadings == {1762387200, 1762387261}
UtcOffsets == {0 - 18000, 0, 3600}

----------------------------------------------------------------------------
(* Start-up: create_config, validate_config, set_config_defaults and          *)
(* set_config are called in this order, and an exception of any of them       *)
(* ends the program.                                                          *)

LoadInit ==
    /\ StoreInit
    /\ pc = "create_config"
    /\ \/ file \in {[kind |-> "missing"], [kind |-> "malformed"],
                    [kind |-> "yaml", doc |-> PyNone]}
       \/ IsDocumentFile(file)
    /\ config = PyNone
    /\ stdout = <<>>
    /\ raised = NoException
    /\ steps = <<>>
    /\ utcnow = 0
    /\ tzoffset = 0
    /\ before = PyNone
    /\ prev_out = <<>>
    /\ applied = 0

\* where the pipeline goes after a step
After(exception, next_pc) == IF exception = NoException THEN next_pc ELSE "aborted"

CreateConfig ==
    LET r == create_config(file)
    IN /\ pc = "create_config"
       /\ config' = r.value
       /\ stdout' = stdout \o r.out
       /\ raised' = r.raised
       /\ steps' = Append(steps, [op |-> "create_config", raised |-> r.raised])
       /\ pc' = After(r.raised, "validate_config")
       /\ UNCHANGED <<file, utcnow, tzoffset, before, prev_out, applied>>
       /\ UNCHANGED store_vars

ValidateConfig ==
    LET r == validate_config(config)
    IN /\ pc = "validate_config"
       /\ raised' = r
       /\ steps' = Append(steps, [op |-> "validate_config", raised |-> r])
       /\ pc' = After(r, "set_config_defaults")
       /\ UNCHANGED <<file, config, stdout, utcnow, tzoffset, before, prev_out, applied>>
       /\ UNCHANGED store_vars

SetConfigDefaults ==
    /\ pc = "set_config_defaults"
    /\ \E now \in ClockReadings, utc_offset \in UtcOffsets :
        LET r == set_config_defaults(config, now, utc_offset)
        IN /\ utcnow' = now
           /\ tzoffset' = utc_offset
           /\ before' = config
           /\ config' = r.config
           /\ prev_out' = r.out
           /\ stdout' = stdout \o r.out
           /\ raised' = r.raised
           /\ steps' = Append(steps, [op |-> "set_config_defaults", raised |-> r.raised])
           /\ pc' = After(r.raised, "set_config")
    /\ applied' = applied + 1
    /\ UNCHANGED file
    /\ UNCHANGED store_vars

InstallConfig ==
    LET r == set_config(Cls, config)
    IN /\ pc = "set_config"
       /\ _config' = r.cls._config
       /\ _config_is_set' = r.cls._config_is_set
       /\ call' = [op |-> "set_config", arg |-> config, raised |-> r.raised,
                   first |-> ~first_arg.given, old |-> _config,
                   old_is_set |-> _config_is_set]
       /\ first_arg' = IF first_arg.given THEN first_arg
                       ELSE [given |-> TRUE, arg |-> config]
       /\ ncalls' = ncalls + 1
       /\ raised' = r.raised
       /\ steps' = Append(steps, [op |-> "set_config", raised |-> r.raised])
       /\ pc' = After(r.raised, "running")
       /\ UNCHANGED <<file, config, stdout, utcnow, tzoffset, before, prev_out, applied>>

LoadNext ==
    \/ CreateConfig
    \/ ValidateConfig
    \/ SetConfigDefaults
    \/ InstallConfig

LoadSpec == LoadInit /\ [][LoadNext]_vars

----------------------------------------------------------------------------
(* set_config_defaults on its own, applied to a schema-valid config and     *)
(* then again to what it leaves                                             *)

MaxApply == 2

DefaultsInit ==
    /\ StoreInit
    /\ pc = "set_config_defaults"
    /\ IsDocumentFile(file)
    /\ validate_config(file.doc) = NoException
    /\ config = file.doc
    /\ stdout = <<>>
    /\ raised = NoException
    /\ steps = <<>>
    /\ utcnow = 0
    /\ tzoffset \in UtcOffsets
    /\ before = PyNone
    /\ prev_out = <<>>
    /\ applied = 0

ApplyDefaults ==
    /\ applied < MaxApply
    /\ raised = NoException
    /\ \E now \in ClockReadings :
        LET r == set_config_defaults(config, now, tzoffset)
        IN /\ now >= utcnow
           /\ utcnow' = now
           /\ before' = config
           /\ config' = r.config
           /\ prev_out' = r.out
           /\ stdout' = stdout \o r.out
           /\ raised' = r.raised
           /\ steps' = Append(steps, [op |-> "set_config_defaults", raised |-> r.raised])
    /\ applied' = applied + 1
    /\ UNCHANGED <<pc, file, tzoffset>>
    /\ UNCHANGED store_vars

DefaultsNext == ApplyDefaults

DefaultsSpec == DefaultsInit /\ [][DefaultsNext]_vars

----------------------------------------------------------------------------
(* Claims about the store, checked under Spec *)

AlreadySetError ==
    [exc |-> "RuntimeError",
     msg |-> "Config object already set. Cannot set Config object more than once"]

NotSetError ==
    [exc |-> "RuntimeError", msg |-> "Cannot access values of config before setting it"]

IsRead(c) == c.op = "get_value" \/ c.op \in Accessors

\* C1: the store is write-once. The first set_config call succeeds and stores
\* its argument; every later set_config call, whatever its argument, fails with
\* the already-set error and changes neither _config nor _config_is_set; the
\* stored config stays the argument of the first call.
C1_WriteOnce ==
    /\ first_arg.given => _config_is_set /\ _config = first_arg.arg
    /\ ~first_arg.given => ~_config_is_set /\ _config = PyNone
    /\ call.op = "set_config" /\ call.first =>
          /\ call.raised = NoException
          /\ _config = call.arg
    /\ call.op = "set_config" /\ ~call.first =>
          /\ call.raised = AlreadySetError
          /\ _config = call.old
          /\ _config_is_set = call.old_is_set

C1_Witness ==
    /\ call.op = "set_config"
    /\ ~call.first
    /\ call.arg # first_arg.arg
    /\ call.raised = AlreadySetError

\* C2: no value is read before the configuration is set. While no set_config
\* call has been made, get_value and every accessor fail with the not-set error
\* for every key path, the empty path included, and return no value.
C2_NoReadBeforeSet ==
    IsRead(call) /\ ~first_arg.given =>
        /\ call.raised = NotSetError
        /\ call.value = PyNone

C2_Witness ==
    /\ call.op = "get_value"
    /\ call.keys = <<>>
    /\ ~first_arg.given
    /\ call.raised = NotSetError

\* What lies under the first i keys of a path: Absent when a key is not there
\* or the value above it is no mapping.
RECURSIVE NodeAt(_, _, _)
NodeAt(root, keys, i) ==
    IF i = 0 THEN root
    ELSE LET parent == NodeAt(root, keys, i - 1)
         IN IF parent.t = "dict" /\ keys[i] \in DOMAIN parent.d
            THEN parent.d[keys[i]]
            ELSE Absent

SetMin(S) == CHOOSE x \in S : \A y \in S : x <= y

RecoverPath == <<"recoverFromCheckpoint", "enabled">>

\* C3 as stated: after set_config, a get_value whose path holds a value that
\* is present but falsy fails with the key-not-found error, so a stored
\* recoverFromCheckpoint.enabled == false is not returned.
C3_FalsyIsKeyNotFound ==
    /\ call.op = "get_value" /\ _config_is_set
         /\ (\E i \in 1..Len(call.keys) :
                LET v == NodeAt(_config, call.keys, i)
                IN v # Absent /\ Falsy(v))
       => call.raised.exc = "ValueError"
    /\ call.op = "get_recover_log_offset" /\ _config_is_set
         /\ NodeAt(_config, RecoverPath, 2) = PyBool(FALSE)
       => call.raised.exc = "ValueError"

\* C3 amended: after set_config, get_value fails with the key-not-found error,
\* naming the key, exactly when the first key of the path that is absent or
\* mapped to None is looked up in a mapping (below a value that is no mapping
\* the lookup fails with AttributeError instead); a value that is present and
\* falsy but not None (False, 0, '') is not taken for a missing key and is
\* returned as it is, so a stored recoverFromCheckpoint.enabled == false is
\* read back as False.
C3_KeyNotFoundOnlyWhenAbsentOrNone ==
    /\ call.op = "get_value" /\ _config_is_set =>
          LET keys == call.keys
              bad == {i \in 1..Len(keys) : NodeAt(_config, keys, i) \in {Absent, PyNone}}
          IN IF bad = {}
             THEN /\ call.raised = NoException
                  /\ call.value = NodeAt(_config, keys, Len(keys))
             ELSE LET i == SetMin(bad)
                  IN IF NodeAt(_config, keys, i - 1).t = "dict"
                     THEN /\ call.raised.exc = "ValueError"
                          /\ call.raised.key = keys[i]
                     ELSE call.raised.exc = "AttributeError"
    /\ call.op = "get_recover_log_offset" /\ _config_is_set
         /\ NodeAt(_config, RecoverPath, 2) = PyBool(FALSE)
       => call.raised = NoException /\ call.value = PyBool(FALSE)

C3_Witness ==
    /\ call.op = "get_recover_log_offset"
    /\ _config_is_set
    /\ NodeAt(_config, RecoverPath, 2) = PyBool(FALSE)
    /\ call.raised = NoException
    /\ call.value = PyBool(FALSE)

----------------------------------------------------------------------------
(* Claims about validate_config, checked under LoadSpec *)

\* validate_config has run on the loaded document
Validated == Len(steps) >= 2 /\ steps[2].op = "validate_config" /\ config.t = "dict"
Rejection == steps[2].raised
Accepted == steps[2].raised = NoException

GoodTransport ==
    PyDict([protocol |-> PyStr("UDP"), host |-> PyStr("siem.example"), port |-> PyInt(514)])
GoodEndpoints == PyDict([enabled |-> PyStr("auth")])

\* the config passes when its transport, or its endpoints, are put right
ValidButForTransport(cfg) ==
    validate_config(PyDict(Put(cfg.d, "transport", GoodTransport))) = NoException
ValidButForCerts(cfg) ==
    validate_config(Put2(cfg, "transport", "protocol", PyStr("UDP"))) = NoException
ValidButForEndpoints(cfg) ==
    validate_config(Put2(cfg, "logs", "endpoints", GoodEndpoints)) = NoException

ProtocolPath == <<"transport", "protocol">>
MissingCerts(cfg) == {"certFileDir", "certFileName"} \ DOMAIN cfg.d["transport"].d

\* C6: validate_config rejects a config whose transport.protocol is TCPSSL
\* and which lacks certFileDir or certFileName, with an error on
\* transport.protocol naming each missing field; it accepts an otherwise valid
\* config with TCP or UDP whether or not the cert fields are given, and with
\* TCPSSL when both are given.
C6_TcpSslNeedsCertFields ==
    Validated =>
        LET protocol == config.d["transport"].d["protocol"]
        IN /\ protocol = PyStr("TCPSSL") /\ MissingCerts(config) # {} =>
                /\ Rejection.exc = "RuntimeError"
                /\ \A dep \in MissingCerts(config) :
                       <<ProtocolPath, "field is required", dep>> \in Rejection.errors
           /\ protocol \in {PyStr("TCP"), PyStr("UDP")} /\ ValidButForCerts(config) =>
                Accepted
           /\ protocol = PyStr("TCPSSL") /\ MissingCerts(config) = {}
                /\ ValidButForCerts(config) =>
                Accepted

C6_Witness ==
    /\ Validated
    /\ config.d["transport"].d["protocol"] = PyStr("TCPSSL")
    /\ MissingCerts(config) = {"certFileName"}
    /\ ValidButForTransport(config)
    /\ Rejection.exc = "RuntimeError"

EndpointNames == {"adminaction", "auth", "telephony"}

\* some value of logs.endpoints.enabled is none of the three endpoint names
HasOtherEndpoint(enabled) ==
    \/ enabled.t = "str" /\ enabled.s \notin EndpointNames
    \/ enabled.t = "list" /\ \E i \in 1..Len(enabled.l) :
          ~(enabled.l[i].t = "str" /\ enabled.l[i].s \in EndpointNames)

EnabledOf(cfg) == cfg.d["logs"].d["endpoints"].d["enabled"]

\* C7 as stated: validate_config rejects every config whose
\* logs.endpoints.enabled, a string or a list, holds a value outside
\* {adminaction, auth, telephony}, and accepts an otherwise valid config when
\* every value given is in that set.
C7_EndpointsAllowedOnly ==
    Validated =>
        /\ HasOtherEndpoint(EnabledOf(config)) => ~Accepted
        /\ ~HasOtherEndpoint(EnabledOf(config)) /\ ValidButForEndpoints(config) => Accepted

\* C7 amended: validate_config rejects every config whose
\* logs.endpoints.enabled holds a value outside {adminaction, auth, telephony},
\* and also one whose list of endpoints is empty; it accepts an otherwise valid
\* config when at least one value is given and every value given is in that set.
C7_EndpointsAllowedAndNotEmpty ==
    Validated =>
        /\ HasOtherEndpoint(EnabledOf(config)) => ~Accepted
        /\ EnabledOf(config) = PyList(<<>>) =>
              /\ ~Accepted
              /\ <<(<<"logs", "endpoints", "enabled">>), "empty values not allowed", "">>
                     \in Rejection.errors
        /\ ~HasOtherEndpoint(EnabledOf(config)) /\ EnabledOf(config) # PyList(<<>>)
              /\ ValidButForEndpoints(config) => Accepted

C7_Witness ==
    /\ Validated
    /\ EnabledOf(config) = PyList(<<PyStr("adminaction"), PyStr("syslog")>>)
    /\ ValidButForEndpoints(config)
    /\ ~Accepted

----------------------------------------------------------------------------
(* Claims about set_config_defaults, checked under LoadSpec *)

\* set_config_defaults has run: `before` is what it was given, `config` what
\* it left, `prev_out` what it printed
Defaulted == applied >= 1

Given(cfg, path) == NodeAt(cfg, path, Len(path))

LogDirPath == <<"logs", "logDir">>
DurationPath == <<"logs", "polling", "duration">>
DaysInPastPath == <<"logs", "polling", "daysinpast">>
CheckpointDirPath == <<"logs", "checkpointDir">>
OffsetPath == <<"logs", "offset">>

\* C4: after set_config_defaults on a schema-valid config, logs.polling.duration
\* is never below 120: 120 when the field (or the polling mapping) was missing,
\* 120 when the value given was below 120, the value given when it was 120 or
\* more.
C4_DurationNeverBelowMinimum ==
    Defaulted =>
        LET given == Given(before, DurationPath)
            result == Given(config, DurationPath)
        IN /\ result.t = "int"
           /\ result.n >= 120
           /\ given = Absent => result.n = 120
           /\ given # Absent /\ given.n < 120 => result.n = 120
           /\ given # Absent /\ given.n >= 120 => result = given

C4_Witness ==
    /\ Defaulted
    /\ Given(before, DurationPath) = PyInt(119)
    /\ Given(config, DurationPath) = PyInt(120)

NoValueLine(field, value) ==
    [fmt |-> "Config: No value given for %s, using default value of %s",
     args |-> <<PyStr(field), value>>]

TooLowLine ==
    [fmt |-> "Config: Value given for logs.polling.duration was too low. Set to default value of %s",
     args |-> <<PyInt(120)>>]

\* the lines expected for a config, in the order of the schema table
LineIfUnset(cfg, path, field, value) ==
    IF Given(cfg, path) = Absent THEN <<NoValueLine(field, value)>> ELSE <<>>

DurationLine(cfg) ==
    IF Given(cfg, DurationPath) = Absent
    THEN <<NoValueLine("logs.polling.duration", PyInt(120))>>
    ELSE IF Given(cfg, DurationPath).n < 120 THEN <<TooLowLine>> ELSE <<>>

ExpectedLines(cfg) ==
    LineIfUnset(cfg, LogDirPath, "logs.logDir", PyStr("/tmp"))
    \o DurationLine(cfg)
    \o LineIfUnset(cfg, DaysInPastPath, "logs.polling.daysinpast", PyInt(180))
    \o LineIfUnset(cfg, CheckpointDirPath, "logs.checkpointDir", PyStr("/tmp"))
    \o LineIfUnset(cfg, RecoverPath, "recoverFromCheckpoint.enabled", PyBool(FALSE))

\* a field that was unset holds its default, one that was given its value
DefaultedOrKept(path, default) ==
    Given(config, path) = IF Given(before, path) = Absent THEN default
                          ELSE Given(before, path)

\* C8: set_config_defaults prints exactly one line per optional field that was
\* unset and sets that field to its default (/tmp, 120, 180, /tmp, false), the
\* lines come in the field order of the schema table, and a field that was
\* given keeps its value and prints nothing, but for a duration below 120,
\* which prints the clamp line.
C8_OneLinePerDefaultedField ==
    Defaulted =>
        /\ prev_out = ExpectedLines(before)
        /\ DefaultedOrKept(LogDirPath, PyStr("/tmp"))
        /\ DefaultedOrKept(DaysInPastPath, PyInt(180))
        /\ DefaultedOrKept(CheckpointDirPath, PyStr("/tmp"))
        /\ DefaultedOrKept(RecoverPath, PyBool(FALSE))
        /\ Given(before, DurationPath) = Absent => Given(config, DurationPath) = PyInt(120)
        /\ Given(before, DurationPath) # Absent /\ Given(before, DurationPath).n >= 120
              => Given(config, DurationPath) = Given(before, DurationPath)
        /\ \A top \in {"duoclient", "transport"} : config.d[top] = before.d[top]
        /\ config.d["logs"].d["endpoints"] = before.d["logs"].d["endpoints"]

C8_Witness ==
    /\ Defaulted
    /\ Len(prev_out) = 5
    /\ Given(before, <<"logs", "polling">>) = Absent
    /\ Given(before, <<"recoverFromCheckpoint">>) = Absent

\* C9: after set_config_defaults, logs.offset is the load-time clock minus
\* daysinpast days in whole seconds, now - 86400 * logs.polling.daysinpast, and
\* is never a value the user gave: a logs.offset in the input is rejected by
\* validate_config or overwritten.
C9_OffsetIsNowMinusDaysInPast ==
    Defaulted =>
        /\ Given(before, OffsetPath) = Absent
        /\ Given(config, OffsetPath) # Absent
        /\ Given(config, OffsetPath).n
              = utcnow - 86400 * Given(config, DaysInPastPath).n

----------------------------------------------------------------------------
(* The order of the start-up steps, checked under LoadSpec *)

Pipeline == <<"create_config", "validate_config", "set_config_defaults", "set_config">>

\* C10: the steps are strictly sequential. validate_config never runs on a
\* config whose load failed, set_config_defaults never on a config that
\* validate_config rejected; no step runs twice or after a step that raised;
\* the exception of a step is what reaches the caller; and a config is in the
\* store only after all three steps passed on it.
C10_StepsStrictlySequential ==
    /\ Len(steps) <= 4
    /\ \A i \in 1..Len(steps) :
          /\ steps[i].op = Pipeline[i]
          /\ i < Len(steps) => steps[i].raised = NoException
    /\ Len(steps) >= 2 =>
          /\ file.kind = "yaml"
          /\ file.doc = IF Len(steps) = 2 THEN config ELSE before
    /\ Len(steps) >= 3 => ValidateDocument(before.d, SCHEMA, <<>>) = {}
    /\ steps # <<>> => raised = steps[Len(steps)].raised
    /\ (raised # NoException) = (pc = "aborted")
    /\ _config_is_set =>
          /\ Len(steps) = 4
          /\ \A i \in 1..3 : steps[i].raised = NoException
          /\ _config = config

C10_Witness ==
    /\ pc = "aborted"
    /\ Len(steps) = 2
    /\ raised.exc = "RuntimeError"
    /\ ~_config_is_set

----------------------------------------------------------------------------
(* Repeated set_config_defaults, checked under DefaultsSpec *)

FullySpecified(cfg) ==
    /\ Given(cfg, LogDirPath) # Absent
    /\ Given(cfg, DurationPath) # Absent
    /\ Given(cfg, DurationPath).n >= 120
    /\ Given(cfg, DaysInPastPath) # Absent
    /\ Given(cfg, CheckpointDirPath) # Absent
    /\ Given(cfg, RecoverPath) # Absent

WithoutOffset(cfg) ==
    PyDict(Put(cfg.d, "logs",
               PyDict([k \in DOMAIN cfg.d["logs"].d \ {"offset"} |-> cfg.d["logs"].d[k]])))

\* C5 as stated: on a schema-valid config with every optional field given,
\* set_config_defaults alters no field and prints nothing, and applied a second
\* time, to its own output, it gives the same config.
C5_IdempotentOnFullySpecified ==
    applied >= 1 /\ FullySpecified(before) /\ raised = NoException =>
        /\ prev_out = <<>>
        /\ WithoutOffset(config) = WithoutOffset(before)
        /\ applied >= 2 => config = before

\* C5 amended: on a schema-valid config with every optional field given,
\* set_config_defaults prints nothing and alters no field the config had, the
\* first time and when applied again to its own output; the one field it
\* writes is logs.offset, which every application sets anew from the clock it
\* reads, so the second result is the first but for logs.offset.
C5_FullySpecifiedKeptButForOffset ==
    applied >= 1 /\ FullySpecified(before) =>
        /\ prev_out = <<>>
        /\ WithoutOffset(config) = WithoutOffset(before)
        /\ raised = NoException => Given(config, OffsetPath) # Absent
        /\ raised # NoException => config = before

C5_Witness ==
    /\ applied = 2
    /\ FullySpecified(before)
    /\ raised = NoException
    /\ prev_out = <<>>
    /\ config # before

====
